---- MODULE Spec2Model ----
(***************************************************************************)
(* Model of the concurrent tree crawler of internal/api/client.go          *)
(* (Client.ListFilesRecursiveWithProgress): a control loop, a pool of      *)
(* worker goroutines, the two buffered channels between them, the shared   *)
(* context and the client's rate limiter.                                  *)
(*                                                                         *)
(* Atomicity: one action per goroutine step between two points where the   *)
(* goroutine can block or where it reads the shared context.               *)
(***************************************************************************)
EXTENDS Integers, Sequences, FiniteSets, TLC

(***************************************************************************)
(* Sizes.  The program uses 5 workers, channels of capacity 100 and a      *)
(* limiter burst of 20 (client.go:249, 261, 262, 32); the model keeps the  *)
(* same structure with smaller sizes so that full channels, idle workers   *)
(* and an empty token bucket are all reached.                              *)
(***************************************************************************)
numWorkers == 2

jobsCap == 1

resultsCap == 1

limiterBurst == 1

\* Number of sub-directories of the root in the fan tree.
MaxFan == 2

\* Largest number of directories whose listing the server fails.
MaxFaults == 2

\* Largest number of pages the server splits one listing into.
MaxPages == 3

\* Largest number of entries on one page.
MaxPageSize == 2

\* The requests of one call of ListFiles that are followed.
MaxCalls == 6

\* Largest number of directories in the statistics of one scan.
MaxDirs == 2

\* Largest number of direct files of one directory in a scan.
MaxCount == 2

\* const batchSize = 50, scaled down.
batchSize == 2

\* Largest number of files collected by one tag command.
MaxIDs == 5

\* Largest number of characters of the file argument of a tag command.
MaxArgLen == 3

Workers == 1..numWorkers

\* The goroutines that call doRequest concurrently on the one client.
Callers == Workers

(***************************************************************************)
(* Entries (type File) and the remote trees the server exposes.            *)
(***************************************************************************)
File(id, name, type, parent) ==
    [ID |-> id, Name |-> name, Type |-> type, ParentID |-> parent]

\* The root directory the crawl is started on (FindFileByPath uses 1).
RootID == 1

\* Root with directory A (10) and file B (11); A holds file C (12).
SmallTree ==
    (RootID :> << File(10, "A", "dir", RootID), File(11, "B", "file", RootID) >>)
    @@ (10 :> << File(12, "C", "file", 10) >>)

\* Three levels: D (20) holds the directories F (22) and G (23).
DeepTree ==
    (RootID :> << File(20, "D", "dir", RootID), File(21, "e", "file", RootID) >>)
    @@ (20 :> << File(22, "F", "dir", 20), File(23, "G", "dir", 20) >>)
    @@ (22 :> << File(24, "h", "file", 22) >>)
    @@ (23 :> << File(25, "k", "file", 23) >>)

\* Root with n empty sub-directories.
FanTree(n) ==
    [d \in {RootID} \cup {100 + i : i \in 1..n} |->
        IF d = RootID
        THEN [i \in 1..n |-> File(100 + i, "w" \o ToString(i), "dir", RootID)]
        ELSE << >>]

Trees == {SmallTree, DeepTree, FanTree(MaxFan)}

\* A directory the server returns in two listings: S (30) is an entry of the
\* root and of T (31); S holds the file x (32).
SharedTree ==
    (RootID :> << File(30, "S", "dir", RootID), File(31, "T", "dir", RootID) >>)
    @@ (31 :> << File(30, "S", "dir", 31) >>)
    @@ (30 :> << File(32, "x", "file", 30) >>)

\* One more sub-directory than the channels and the workers can hold together.
WideTree == FanTree(jobsCap + resultsCap + numWorkers + 1)

\* Whether the listing request of one directory succeeds.
Outcomes == {"ok", "fail"}

Faults(tree) ==
    {f \in [DOMAIN tree -> Outcomes] :
        Cardinality({d \in DOMAIN tree : f[d] # "ok"}) <= MaxFaults}

(***************************************************************************)
(* Errors.                                                                 *)
(***************************************************************************)
NoErr == << "nil" >>

\* ctx.Err() of a cancelled context.
CtxErr == << "context canceled" >>

\* doRequest: fmt.Errorf("rate limiter: %w", err)
LimiterErr == << "rate limiter: context canceled" >>

\* doRequest: fmt.Errorf("HTTP request error: %w", err) for an aborted request
AbortErr(d) == << "HTTP request error: context canceled", d >>

\* doRequest: fmt.Errorf("API error (%d): %s", ...); the path names the directory
APIError(d) == << "API error", d >>

\* doRequest: fmt.Errorf("request timeout after 30s: %s %s", method, path)
TimeoutErr(d) == << "request timeout after 30s", d >>

VARIABLES
    server,       \* the remote tree: directory id -> its listing
    fault,        \* directory id -> outcome of its listing request
    progress,     \* whether a progress callback was supplied
    cancelled,    \* ctx.Done() is closed
    tokens,       \* tokens in the limiter's bucket
    jobs,         \* the jobs channel (buffer)
    jobsClosed,   \* close(jobs) was executed
    results,      \* the results channel (buffer)
    wpc,          \* position of each worker goroutine
    wjob,         \* the job a worker holds (j)
    wres,         \* the (files, err) a worker's ListFiles returned
    wexit,        \* where a worker returned from its goroutine
    wdeqc,        \* history: the signal was raised when the job was dequeued
    wsent,        \* history: an HTTP request was sent for the held job
    cpc,          \* position of the control loop
    pending,      \* pending
    allFiles,     \* allFiles
    firstErr,     \* firstErr
    todo,         \* sub-directories of the current result still to enqueue
    progressLog,  \* the calls made to the progress callback
    ret,          \* what ListFilesRecursiveWithProgress returned
    errLog,       \* history: the errors of the results received, in order
    lateUsed,     \* history: a result completed after the signal was appended
    whist,        \* history of the workers: jobs received, listings, results sent
    chist,        \* history of the control loop: jobs sent, results received,
                  \* and whether an error was recorded when the signal was raised
    closes,       \* history: number of times close(jobs) was executed
    req,          \* the calls of doRequest in progress, one per caller
    lst,          \* one call of ListFiles: the server's pages and its progress
    scan,         \* one run of the scan command after its crawl: flags, report
    tag           \* one run of tag add / tag rm: argument, batches, server state

vars == << server, fault, progress, cancelled, tokens, jobs, jobsClosed, results,
           wpc, wjob, wres, wexit, wdeqc, wsent, cpc, pending, allFiles,
           firstErr, todo, progressLog, ret, errLog, lateUsed, whist, chist,
           closes, req, lst, scan, tag >>

\* The state of the commands of package cmd.
cmdvars == << scan, tag >>

\* What no step of the crawl changes: its inputs, and the single calls of
\* doRequest and of ListFiles that are followed in ReqSpec and ListSpec only.
env == << server, fault, progress, req, lst, cmdvars >>

wvars == << wpc, wjob, wres, wexit, wdeqc, wsent, whist >>

cvars == << cpc, pending, allFiles, firstErr, todo, progressLog, ret, errLog,
            lateUsed, chist, closes >>

NoJob == [dirID |-> 0, dirName |-> ""]

NoRes == [files |-> << >>, err |-> NoErr, late |-> FALSE]

NoRet == [files |-> << >>, err |-> NoErr]

job(id, name) == [dirID |-> id, dirName |-> name]

\* result{files, dirName, err}; late is a history field (see lateUsed)
result(files, name, err, late) ==
    [files |-> files, dirName |-> name, err |-> err, late |-> late]

(***************************************************************************)
(* Pieces of the control loop.                                             *)
(***************************************************************************)
\* Variant: the recorded error is overwritten by every failing result.
RecordLastErr(fe, e) == e

\* if firstErr == nil { firstErr = r.err }
RecordErr(fe, e) == IF fe = NoErr THEN e ELSE fe

\* Variant: the loop over r.files stops after the first sub-directory.
SubdirsFirstOnly(files) ==
    LET ds == SelectSeq(files, LAMBDA f : f.Type = "dir")
    IN  IF ds = << >> THEN << >> ELSE << Head(ds) >>

\* Variant: a visited set; a directory whose identifier is already in the
\* accumulated output is not enqueued again.
SubdirsUnvisited(files) ==
    SelectSeq(files, LAMBDA f :
        /\ f.Type = "dir"
        /\ \A i \in DOMAIN allFiles :
              allFiles[i].Type = "dir" => allFiles[i].ID # f.ID)

\* for _, f := range r.files { if f.Type == "dir" { ... } }
Subdirs(files) == SelectSeq(files, LAMBDA f : f.Type = "dir")

\* Variant: the counter is not incremented for a discovered sub-directory.
KeepPending(p) == p

\* pending++
IncPending(p) == p + 1

\* Variant: the counter is not decremented when a result is taken.
HoldPending(p) == p

\* pending--
DecPending(p) == p - 1

\* Variant: the accumulated entries are returned along with the error.
LoopExitPartial(fe, af) == [files |-> af, err |-> fe]

\* Variant: a recorded failure is returned as a cancellation.
LoopExitAsCancelled(fe, af) ==
    IF fe # NoErr THEN [files |-> << >>, err |-> CtxErr]
    ELSE [files |-> af, err |-> NoErr]

\* if firstErr != nil { return nil, firstErr }; return allFiles, nil
LoopExit(fe, af) ==
    IF fe # NoErr THEN [files |-> << >>, err |-> fe]
    ELSE [files |-> af, err |-> NoErr]

\* Variant: directory entries are enqueued but not kept in the output.
AccumulateFilesOnly(acc, files) ==
    acc \o SelectSeq(files, LAMBDA f : f.Type # "dir")

\* allFiles = append(allFiles, r.files...)
Accumulate(acc, files) == acc \o files

\* Variant: the callback is told the size of the result, not the total.
ProgressArgsOwnCount(r, acc) == << r.dirName, Len(r.files) >>

\* progress(r.dirName, len(allFiles))
ProgressArgs(r, acc) == << r.dirName, Len(acc) >>

\* return nil, ctx.Err()
CancelExit == [files |-> << >>, err |-> CtxErr]

\* Variant: the loop returns without closing the jobs channel.
LoopTestNoClose(p, fe, af) ==
    IF p > 0
    THEN /\ cpc' = "select"
         /\ UNCHANGED << jobsClosed, closes, ret >>
    ELSE /\ cpc' = "done"
         /\ ret' = LoopExit(fe, af)
         /\ UNCHANGED << jobsClosed, closes >>

\* for pending > 0 { ... }; close(jobs); return
LoopTest(p, fe, af) ==
    IF p > 0
    THEN /\ cpc' = "select"
         /\ UNCHANGED << jobsClosed, closes, ret >>
    ELSE /\ cpc' = "done"
         /\ jobsClosed' = TRUE
         /\ closes' = closes + 1
         /\ ret' = LoopExit(fe, af)

(***************************************************************************)
(* One call of ListFiles (client.go:167-202): the cursor loop.             *)
(***************************************************************************)
\* cursor := ""
NoCursor == ""

\* The opaque cursors the server hands out: CursorNames[i] asks for page i.
CursorNames == << "c1", "c2", "c3", "c4", "c5" >>

\* No call of ListFiles is followed.
NoListing == [pc |-> "idle"]

RECURSIVE SumSeq(_)
SumSeq(q) == IF q = << >> THEN 0 ELSE Head(q) + SumSeq(Tail(q))

\* The server's listing of one directory split into pages of the given
\* sizes: the entries are numbered in server order, page i announces page
\* i + 1, and the last page has has_more false and the cursor field tail.
Paged(sizes, tail) ==
    [i \in 1..Len(sizes) |->
        LET before == SumSeq(SubSeq(sizes, 1, i - 1))
        IN  [data |-> [j \in 1..sizes[i] |->
                         File(100 + before + j, "f", "file", RootID)],
             hasMore |-> i < Len(sizes),
             cursor |-> IF i < Len(sizes) THEN CursorNames[i + 1] ELSE tail]]

\* The outcomes of one page request: the page, an error of doRequest, a body
\* that json.Unmarshal rejects, or a decoded body whose result is not success.
PageOutcomes == {"ok", "transport", "badjson", "notsuccess"}

\* return nil, fmt.Errorf("JSON parse error: %w", err)
JSONParseErr == << "JSON parse error" >>

\* return nil, fmt.Errorf("API error: %s", resp.Result)
ResultErr == << "API error: error" >>

\* The listings followed: every split into 1..MaxPages pages of
\* 0..MaxPageSize entries, a last page with or without a left-over cursor,
\* and at most one page whose request fails (failAt = 0: none).
Listings ==
    {[pc |-> "request", pages |-> Paged(sizes, tail), failAt |-> fa,
      failAs |-> fk, cursor |-> NoCursor, allFiles |-> << >>, calls |-> << >>,
      ret |-> [files |-> << >>, err |-> NoErr]] :
        sizes \in UNION {[1..n -> 0..MaxPageSize] : n \in 1..MaxPages},
        tail \in {NoCursor, CursorNames[1]},
        fa \in 0..MaxPages,
        fk \in PageOutcomes \ {"ok"}}

\* Variant: the cursor parameter is never added to the path.
ReqPathWithoutCursor(path, cursor) == << path >>

\* reqPath := path; if cursor != "" { reqPath = path + "?cursor=" + cursor }
ReqPath(path, cursor) ==
    IF cursor # NoCursor THEN << path, "?cursor=", cursor >> ELSE << path >>

\* The page the server answers a request path with: the first page when the
\* path has no cursor parameter, else the page the cursor stands for.
PageAsked(reqPath) ==
    IF Len(reqPath) = 1 THEN 1
    ELSE CHOOSE i \in 1..Len(CursorNames) : CursorNames[i] = reqPath[3]

\* Variant: the accumulated pages are returned along with the error.
ListFailsPartial(acc, err) == [files |-> acc, err |-> err]

\* return nil, err
ListFails(acc, err) == [files |-> << >>, err |-> err]

\* Variant: the loop goes on while the response carries a cursor.
MoreWhileCursor(page) == page.cursor # NoCursor

\* if !resp.HasMore { break }
More(page) == page.hasMore

\* Variant: an empty cursor in the response leaves the cursor as it was.
KeepCursorWhenEmpty(cur, page) == IF page.cursor = NoCursor THEN cur ELSE page.cursor

\* cursor = resp.Cursor
NextCursor(cur, page) == page.cursor

\* The page chains followed: 1..MaxPages pages of one entry each, every page
\* with has_more true or false and with an empty cursor or the cursor of any
\* page, so that a chain can end, come back on itself or lose its cursor.
Chains ==
    UNION {{[pc |-> "request",
             pages |-> [i \in 1..n |->
                          [data |-> << File(100 + i, "f", "file", RootID) >>,
                           hasMore |-> hm[i], cursor |-> cu[i]]],
             failAt |-> 0, failAs |-> "transport", cursor |-> NoCursor,
             allFiles |-> << >>, calls |-> << >>,
             ret |-> [files |-> << >>, err |-> NoErr]] :
               hm \in [1..n -> BOOLEAN],
               cu \in [1..n -> {NoCursor} \cup {CursorNames[j] : j \in 1..n}]} :
           n \in 1..MaxPages}

(***************************************************************************)
(* The report of the scan command (cmd/scan.go:100-148).                   *)
(***************************************************************************)
\* No scan is followed.
NoScan == [pc |-> "idle"]

\* type dirStats struct, the fields the report is built from
dirStats(id, count, size) == [ID |-> id, FileCount |-> count, Size |-> size]

\* The total sizes of the direct files of a directory that the scans differ in.
Sizes == {1, 2}

\* The statistics built from a crawl: directories 1..n with their direct
\* file counts and sizes; the flags -t, -n, -a and -s.
Scans ==
    {[pc |-> "stats", stats |-> st, threshold |-> t, top |-> n, all |-> a,
      sortBy |-> sb, results |-> << >>, filtered |-> << >>, notice |-> FALSE] :
        st \in UNION {[1..k -> {dirStats(0, c, z) : c \in 0..MaxCount, z \in Sizes}] :
                         k \in 0..MaxDirs},
        t \in 0..MaxCount + 1,
        n \in 0..MaxDirs,
        a \in BOOLEAN,
        sb \in {"size", "files"}}

\* switch scanSort: the less function given to sort.Slice
Before(sb, x, y) ==
    IF sb = "size" THEN x.Size > y.Size ELSE x.FileCount > y.FileCount

\* The orders in which the directories with files can come out of the map
\* and of sort.Slice: every arrangement in which no entry stands after one
\* that it must precede.
Sorted(st, sb) ==
    LET keep == {i \in DOMAIN st : st[i].FileCount > 0}
        entry(i) == dirStats(i, st[i].FileCount, st[i].Size)
    IN  {[k \in 1..Cardinality(keep) |-> entry(f[k])] :
            f \in {g \in [1..Cardinality(keep) -> keep] :
                     /\ \A i, j \in 1..Cardinality(keep) : g[i] = g[j] => i = j
                     /\ \A i, j \in 1..Cardinality(keep) :
                           i < j => ~Before(sb, entry(g[j]), entry(g[i]))}}

\* if scanTop > 0 && len(rows) > scanTop { rows[:scanTop] } else { rows }
TopOf(rows, n) == IF n > 0 /\ Len(rows) > n THEN SubSeq(rows, 1, n) ELSE rows

\* for _, r := range results { if r.FileCount >= scanThreshold { ... } }
Passing(rs, t) == SelectSeq(rs, LAMBDA r : r.FileCount >= t)

\* Filter results (cmd/scan.go:121-148)
Filtered(rs, a, t, n) ==
    IF a THEN rs
    ELSE IF Len(Passing(rs, t)) = 0 /\ Len(rs) > 0
         THEN TopOf(rs, n)
         ELSE TopOf(Passing(rs, t), n)

\* the notice "No directories with >= %d files, showing top %d" is printed
Noticed(rs, a, t) ==
    ~a /\ Len(Passing(rs, t)) = 0 /\ Len(rs) > 0

(***************************************************************************)
(* The commands tag add and tag rm (cmd/tag.go:364-482).                   *)
(***************************************************************************)
\* No tag command is followed.
NoTag == [pc |-> "idle"]

\* The characters the file argument is made of.
Digits == {"1", "2"}

Chars == Digits \cup {"a", "/", " "}

DigitVal(c) == IF c = "1" THEN 1 ELSE 2

\* The value of a sequence of decimal digits.
RECURSIVE Decimal(_)
Decimal(ds) ==
    IF ds = << >> THEN 0
    ELSE 10 * Decimal(SubSeq(ds, 1, Len(ds) - 1)) + DigitVal(ds[Len(ds)])

\* The longest prefix of a made of digits.
RECURSIVE LeadingDigits(_)
LeadingDigits(a) ==
    IF a = << >> \/ a[1] \notin Digits THEN << >>
    ELSE << a[1] >> \o LeadingDigits(Tail(a))

RECURSIVE SkipSpace(_)
SkipSpace(a) == IF a # << >> /\ a[1] = " " THEN SkipSpace(Tail(a)) ELSE a

\* strconv.Atoi(idOrPath): the whole argument must be a number
Atoi(a) ==
    IF a # << >> /\ LeadingDigits(a) = a
    THEN [ok |-> TRUE, n |-> Decimal(a)]
    ELSE [ok |-> FALSE, n |-> 0]

\* fmt.Sscanf(args[1], "%d", &fileID): leading spaces are skipped, the digits
\* that follow are read, and what comes after them is left unread
Sscanf(a) ==
    LET ds == LeadingDigits(SkipSpace(a))
    IN  IF ds # << >> THEN [ok |-> TRUE, n |-> Decimal(ds)]
        ELSE [ok |-> FALSE, n |-> 0]

\* The tree the tag commands run on; the names are sequences of characters.
\* The root holds A (10), 2 (20) and a (30); A holds a (11); 2 holds 1 (21).
TagTree ==
    (RootID :> << File(10, << "A" >>, "dir", RootID),
                  File(20, << "2" >>, "dir", RootID),
                  File(30, << "a" >>, "dir", RootID) >>)
    @@ (10 :> << File(11, << "a" >>, "dir", 10) >>)
    @@ (20 :> << File(21, << "1" >>, "dir", 20) >>)
    @@ (30 :> << >>) @@ (11 :> << >>) @@ (21 :> << >>)

\* strings.Trim(filePath, "/")
RECURSIVE TrimSlashes(_)
TrimSlashes(p) ==
    IF p # << >> /\ p[1] = "/" THEN TrimSlashes(Tail(p))
    ELSE IF p # << >> /\ p[Len(p)] = "/" THEN TrimSlashes(SubSeq(p, 1, Len(p) - 1))
    ELSE p

\* strings.Split(filePath, "/")
RECURSIVE Split(_)
Split(p) ==
    IF \A i \in DOMAIN p : p[i] # "/" THEN << p >>
    ELSE LET i == CHOOSE j \in DOMAIN p :
                      p[j] = "/" /\ \A k \in 1..(j - 1) : p[k] # "/"
         IN  << SubSeq(p, 1, i - 1) >> \o Split(SubSeq(p, i + 1, Len(p)))

\* strings.ToLower, on the characters of the arguments and of the names
ToLower(name) == [i \in DOMAIN name |-> IF name[i] = "A" THEN "a" ELSE name[i]]

\* fmt.Errorf("path not found: %s", part)
PathNotFoundErr(part) == << "path not found", part >>

\* The error returned by GetFile for an entry the server does not serve.
GetFileErr == << "API error (404)" >>

\* c.GetFile(ctx, id), as far as its caller reads it: the entry's identifier
\* or the error; gf tells whether the request fails
GetFile(gf, id) ==
    IF gf THEN [id |-> 0, err |-> GetFileErr] ELSE [id |-> id, err |-> NoErr]

\* The loop of FindFileByPath (client.go:214-233): each part is looked for
\* in the listing of the current directory, lower-cased, first match first.
RECURSIVE WalkPath(_, _, _, _, _)
WalkPath(tree, flt, gf, parts, currentID) ==
    IF parts = << >> THEN GetFile(gf, currentID)
    ELSE IF flt[currentID] # "ok" THEN [id |-> 0, err |-> APIError(currentID)]
    ELSE LET files == tree[currentID]
             hits == {i \in DOMAIN files :
                        ToLower(files[i].Name) = ToLower(Head(parts))}
         IN  IF hits = {} THEN [id |-> 0, err |-> PathNotFoundErr(Head(parts))]
             ELSE LET first == CHOOSE i \in hits : \A j \in hits : i <= j
                  IN  WalkPath(tree, flt, gf, Tail(parts), files[first].ID)

\* FindFileByPath (client.go:205-236) on the server tree, with flt telling
\* which listings fail and gf whether GetFile fails
FindFileByPath(tree, flt, gf, filePath) ==
    IF TrimSlashes(filePath) = << >> THEN GetFile(gf, RootID)
    ELSE WalkPath(tree, flt, gf, Split(TrimSlashes(filePath)), RootID)

\* resolveFileID (cmd/helpers.go:127-137): a number is the identifier itself,
\* anything else is looked up as a path, and the error of the lookup returned
resolveFileID(tree, flt, gf, idOrPath) ==
    IF Atoi(idOrPath).ok THEN [id |-> Atoi(idOrPath).n, err |-> NoErr]
    ELSE IF FindFileByPath(tree, flt, gf, idOrPath).err # NoErr
         THEN [id |-> 0, err |-> FindFileByPath(tree, flt, gf, idOrPath).err]
         ELSE [id |-> FindFileByPath(tree, flt, gf, idOrPath).id, err |-> NoErr]

\* Variant: the argument is resolved as an identifier or a path.
ParseByResolve(a) ==
    [ok |-> resolveFileID(server, fault, tag.getFails, a).err = NoErr,
     n |-> resolveFileID(server, fault, tag.getFails, a).id]

\* var fileID int; if _, err := fmt.Sscanf(args[1], "%d", &fileID); err != nil
ParseFileArg(a) == Sscanf(a)

\* fmt.Errorf("invalid file_id: %s", args[1])
InvalidFileIDErr == << "invalid file_id" >>

\* The error of a batch request.
BatchErr(k) == << "batch request error", k >>

\* How the request of one batch can end: answered, refused before the server
\* changed anything, or applied by the server with the answer lost or not
\* decodable on the way back (client.go:383-395).
BatchOutcomes == {"ok", "refused", "lost"}

\* Variant: the next batch starts on the last identifier of this one.
NextStartOverlapping(i) == i + batchSize - 1

\* i += batchSize
NextStart(i) == i + batchSize

\* end := i + batchSize; if end > len(fileIDs) { end = len(fileIDs) }
BatchEnd(i, n) == IF i + batchSize > n THEN n ELSE i + batchSize

\* fileIDs[i:end]
Batch(ids, i) == SubSeq(ids, i + 1, BatchEnd(i, Len(ids)))

\* Variant: the loop goes on with the next batch after a failed request.
ContinueAfterBatchError == "batch"

\* if err != nil { return err }
AfterBatchError == "done"

\* The runs followed: the command, its file argument, the number of entries
\* collected (the entry itself and its descendants with -r), whether GetFile
\* fails, and at most one batch whose request fails (failAt = 0: none).
Tags ==
    {[pc |-> "args", cmd |-> c, arg |-> a, nids |-> n, getFails |-> g,
      failAt |-> fa, failAs |-> fk, fileID |-> 0, ids |-> << >>, i |-> 0,
      sent |-> << >>, applied |-> << >>, reported |-> 0, err |-> NoErr] :
        c \in {"add", "rm"},
        a \in UNION {[1..k -> Chars] : k \in 1..MaxArgLen},
        n \in 1..MaxIDs,
        g \in BOOLEAN,
        fa \in 0..MaxIDs,
        fk \in BatchOutcomes \ {"ok"}}

(***************************************************************************)
(* One call of doRequest (client.go:36-113).                               *)
(***************************************************************************)
\* const maxRetries = 3
maxRetries == 3

\* The status codes the server answers with.
Statuses == {200, 404, 429, 500}

\* fmt.Errorf("API rate limited (429) after %d retries", maxRetries)
RateLimitedErr(n) == << "API rate limited (429) after retries", n >>

\* fmt.Errorf("API error (%d): %s", resp.StatusCode, string(data))
APIStatusErr(status, body) == << "API error", status, body >>

\* fmt.Errorf("request timeout after 30s: %s %s", method, path)
RequestTimeoutErr == << "request timeout after 30s" >>

\* fmt.Errorf("HTTP request error: %w", err)
TransportErr == << "HTTP request error" >>

\* fmt.Errorf("HTTP request error: %w", err) with err the context's error
RequestAbortedErr == << "HTTP request error: context canceled" >>

\* fmt.Errorf("response read error: %w", err)
ReadErr == << "response read error" >>

\* fmt.Errorf("response read error: %w", err) with err the deadline error of
\* the attempt's context, met by io.ReadAll
ReadTimeoutErr == << "response read error: context deadline exceeded" >>

\* fmt.Errorf("max retries exceeded")
MaxRetriesErr == << "max retries exceeded" >>

\* fmt.Errorf("request creation error: %w", err)
RequestCreationErr == << "request creation error" >>

NoData == << >>

\* A call that entered the retry loop: attempt = 0, nothing sent yet.
\* urlOK tells whether url (c.baseURL followed by path) parses; resp, waits,
\* granted and sent are the history of the call.
NewRequest ==
    [pc |-> "wait", urlOK |-> TRUE, attempt |-> 0, delay |-> 0, resp |-> << >>,
     waits |-> << >>, granted |-> 0, sent |-> 0,
     ret |-> [data |-> NoData, err |-> NoErr]]

\* Variant: a 429 is retried while attempt < maxRetries.
CanRetryOnceMore(attempt) == attempt < maxRetries

\* if attempt < maxRetries-1
CanRetry(attempt) == attempt < maxRetries - 1

\* Variant: the delay is not doubled.
FixedBackoff(attempt) == 1

\* delay := time.Duration(1<<attempt) * time.Second, in seconds
Backoff(attempt) == 2 ^ attempt

\* Variant: only server errors are reported, a 4xx body is returned as data.
IsServerError(status) == status >= 500

\* if resp.StatusCode >= 400
IsAPIError(status) == status >= 400

\* Variant: the limiter waits on a context that is never cancelled.
WaitIgnoresCtx(c) == FALSE

\* c.limiter.Wait(ctx) returns an error when ctx is cancelled
WaitHonoursCtx(c) == c

\* Variant: the retry re-sends without going through the limiter again.
RetrySkipsLimiter == "send"

\* continue: the next iteration starts with c.limiter.Wait(ctx)
RetryEntry == "wait"

\* the count named in the rate-limited error
RetriesNamed == maxRetries

\* The body the server sends with its k-th answer to a call.
BodyOf(k) == << "body", k >>

\* What c.httpClient.Do and io.ReadAll can produce for the k-th attempt; an
\* attempt in flight when the context is cancelled can also be aborted.
\* "timeout" is the 30s deadline of reqCtx elapsing inside Do, "readtimeout"
\* the same deadline elapsing inside io.ReadAll.  The deadline of reqCtx is
\* set before Do starts the client's own 30s Timeout, so it is never the later
\* of the two.
Answers(k, c) ==
    {[kind |-> "http", status |-> st, body |-> BodyOf(k)] : st \in Statuses}
    \cup {[kind |-> kd, status |-> 0, body |-> NoData] :
             kd \in {"timeout", "neterr", "readerr", "readtimeout"}}
    \cup (IF c THEN {[kind |-> "aborted", status |-> 0, body |-> NoData]} ELSE {})

\* The state after client.go:248-291: the workers are started and the root
\* job is queued; calls are the calls of doRequest followed apart.
StartWith(calls) ==
    /\ cancelled = FALSE
    /\ tokens = limiterBurst
    /\ jobs = << job(RootID, "root") >>
    /\ jobsClosed = FALSE
    /\ results = << >>
    /\ wpc = [w \in Workers |-> "range"]
    /\ wjob = [w \in Workers |-> NoJob]
    /\ wres = [w \in Workers |-> NoRes]
    /\ wexit = [w \in Workers |-> "no"]
    /\ wdeqc = [w \in Workers |-> FALSE]
    /\ wsent = [w \in Workers |-> FALSE]
    /\ cpc = "select"
    /\ pending = 1
    /\ allFiles = << >>
    /\ firstErr = NoErr
    /\ todo = << >>
    /\ progressLog = << >>
    /\ ret = NoRet
    /\ errLog = << >>
    /\ lateUsed = FALSE
    /\ whist = [recv |-> [d \in DOMAIN server |-> 0],
                list |-> [d \in DOMAIN server |-> 0],
                pub |-> 0]
    /\ chist = [enq |-> 1, cons |-> 0, errAtSignal |-> FALSE]
    /\ closes = 0
    /\ req = calls

\* Every call of doRequest followed apart has a url that parses.
Start == StartWith([c \in Callers |-> NewRequest])

Init ==
    /\ server \in Trees
    /\ fault \in Faults(server)
    /\ progress = TRUE
    /\ Start
    /\ lst = NoListing
    /\ scan = NoScan
    /\ tag = NoTag

\* A crawl of the tree in which one directory is returned by two listings.
InitShared ==
    /\ server = SharedTree
    /\ fault \in Faults(server)
    /\ progress = TRUE
    /\ Start
    /\ lst = NoListing
    /\ scan = NoScan
    /\ tag = NoTag

\* A crawl of the fan tree, every listing succeeding.
InitFan ==
    /\ server = FanTree(MaxFan)
    /\ fault = [d \in DOMAIN server |-> "ok"]
    /\ progress = TRUE
    /\ Start
    /\ lst = NoListing
    /\ scan = NoScan
    /\ tag = NoTag

\* ListFilesRecursive: a crawl without progress callback; every listing
\* succeeds, and the trees include the wide one.
InitWide ==
    /\ server \in Trees \cup {WideTree}
    /\ fault = [d \in DOMAIN server |-> "ok"]
    /\ progress = FALSE
    /\ Start
    /\ lst = NoListing
    /\ scan = NoScan
    /\ tag = NoTag

(***************************************************************************)
(* The environment: the caller's cancellation and the limiter's refill.    *)
(***************************************************************************)
\* The caller cancels the context while the crawl is running.
Cancel ==
    /\ ~cancelled
    /\ cpc # "done"
    /\ cancelled' = TRUE
    /\ chist' = [chist EXCEPT !.errAtSignal = (firstErr # NoErr /\ pending > 0)]
    /\ UNCHANGED << env, tokens, jobs, jobsClosed, results, wvars, cpc, pending,
                    allFiles, firstErr, todo, progressLog, ret, errLog, lateUsed,
                    closes >>

\* rate.NewLimiter(rate.Limit(10), 20): one token comes back every 100ms.
Refill ==
    /\ tokens < limiterBurst
    /\ tokens' = tokens + 1
    /\ UNCHANGED << env, cancelled, jobs, jobsClosed, results, wvars, cvars >>

(***************************************************************************)
(* The worker goroutines (client.go:266-283).                              *)
(***************************************************************************)
\* Variant: the test is inverted, the worker returns when not cancelled.
InvertedCheckBefore(c) == ~c

\* if ctx.Err() != nil { return }   (before the request)
CheckBefore(c) == c

\* Variant: the context is not checked after the request.
NoCheckAfter(c) == FALSE

\* if ctx.Err() != nil { return }   (after the request)
CheckAfter(c) == c

\* Variant: a listing that failed is requested again for the same job.
RetryFailedListing(e) == IF e # NoErr THEN "before" ELSE "publish"

\* after ListFiles returned, the result is published whatever err is
AfterListing(e) == "publish"

\* Variant: the result is published with a plain send, without select.
PublishNeverAborts(c) == FALSE

\* case <-ctx.Done(): return   (in the select that publishes the result)
PublishAborts(c) == c

\* What ListFiles can return for directory d once its request was sent: the
\* listing, or for a failing request an API error or a timeout; a request in
\* flight when the context is cancelled can also be aborted.
Response(d, c) ==
    (IF fault[d] = "ok"
     THEN {[files |-> server[d], err |-> NoErr]}
     ELSE {[files |-> << >>, err |-> APIError(d)],
           [files |-> << >>, err |-> TimeoutErr(d)]})
    \cup
    (IF c THEN {[files |-> << >>, err |-> AbortErr(d)]} ELSE {})

WorkerReturns(w, where) ==
    /\ wpc' = [wpc EXCEPT ![w] = "exited"]
    /\ wexit' = [wexit EXCEPT ![w] = where]
    /\ wjob' = [wjob EXCEPT ![w] = NoJob]
    /\ wres' = [wres EXCEPT ![w] = NoRes]

\* for j := range jobs: a job is received
WReceive(w) ==
    /\ wpc[w] = "range"
    /\ jobs # << >>
    /\ jobs' = Tail(jobs)
    /\ wjob' = [wjob EXCEPT ![w] = Head(jobs)]
    /\ wpc' = [wpc EXCEPT ![w] = "before"]
    /\ wdeqc' = [wdeqc EXCEPT ![w] = cancelled]
    /\ wsent' = [wsent EXCEPT ![w] = FALSE]
    /\ whist' = [whist EXCEPT !.recv[Head(jobs).dirID] = @ + 1]
    /\ UNCHANGED << env, cancelled, tokens, jobsClosed, results, wres, wexit, cvars >>

\* for j := range jobs: the channel is closed and empty
WRangeEnds(w) ==
    /\ wpc[w] = "range"
    /\ jobs = << >>
    /\ jobsClosed
    /\ WorkerReturns(w, "closed")
    /\ UNCHANGED << env, cancelled, tokens, jobs, jobsClosed, results, wdeqc, wsent,
                    whist, cvars >>

\* the context check before the request, then the call of ListFiles
WBefore(w) ==
    /\ wpc[w] = "before"
    /\ IF CheckBefore(cancelled)
       THEN /\ WorkerReturns(w, "before")
            /\ UNCHANGED whist
       ELSE /\ wpc' = [wpc EXCEPT ![w] = "limiter"]
            /\ whist' = [whist EXCEPT !.list[wjob[w].dirID] = @ + 1]
            /\ UNCHANGED << wjob, wres, wexit >>
    /\ UNCHANGED << env, cancelled, tokens, jobs, jobsClosed, results, wdeqc, wsent,
                    cvars >>

\* doRequest: c.limiter.Wait(ctx) fails on a cancelled context, else takes a
\* token when there is one and the request is sent
WLimiter(w) ==
    /\ wpc[w] = "limiter"
    /\ IF cancelled
       THEN /\ wres' = [wres EXCEPT ![w] =
                          [files |-> << >>, err |-> LimiterErr, late |-> TRUE]]
            /\ wpc' = [wpc EXCEPT ![w] = "after"]
            /\ UNCHANGED << tokens, wsent >>
       ELSE /\ tokens > 0
            /\ tokens' = tokens - 1
            /\ wsent' = [wsent EXCEPT ![w] = TRUE]
            /\ wpc' = [wpc EXCEPT ![w] = "http"]
            /\ UNCHANGED wres
    /\ UNCHANGED << env, cancelled, jobs, jobsClosed, results, wjob, wexit, wdeqc,
                    whist, cvars >>

\* c.httpClient.Do(req) returns and ListFiles returns (files, err)
WResponse(w) ==
    /\ wpc[w] = "http"
    /\ \E r \in Response(wjob[w].dirID, cancelled) :
          wres' = [wres EXCEPT ![w] =
                     [files |-> r.files, err |-> r.err, late |-> cancelled]]
    /\ wpc' = [wpc EXCEPT ![w] = "after"]
    /\ UNCHANGED << env, cancelled, tokens, jobs, jobsClosed, results, wjob, wexit,
                    wdeqc, wsent, whist, cvars >>

\* the context check after the request
WAfter(w) ==
    /\ wpc[w] = "after"
    /\ IF CheckAfter(cancelled)
       THEN WorkerReturns(w, "after")
       ELSE /\ wpc' = [wpc EXCEPT ![w] = AfterListing(wres[w].err)]
            /\ UNCHANGED << wjob, wres, wexit >>
    /\ UNCHANGED << env, cancelled, tokens, jobs, jobsClosed, results, wdeqc, wsent,
                    whist, cvars >>

\* Variant: the worker that publishes a result also decrements the counter.
WPublishCounts(w) ==
    /\ wpc[w] = "publish"
    /\ Len(results) < resultsCap
    /\ results' = Append(results,
                     result(wres[w].files, wjob[w].dirName, wres[w].err, wres[w].late))
    /\ wpc' = [wpc EXCEPT ![w] = "range"]
    /\ wjob' = [wjob EXCEPT ![w] = NoJob]
    /\ wres' = [wres EXCEPT ![w] = NoRes]
    /\ whist' = [whist EXCEPT !.pub = @ + 1]
    /\ pending' = pending - 1
    /\ UNCHANGED << env, cancelled, tokens, jobs, jobsClosed, wexit, wdeqc, wsent,
                    cpc, allFiles, firstErr, todo, progressLog, ret, errLog,
                    lateUsed, chist, closes >>

\* select: case results <- result{...}
WPublish(w) ==
    /\ wpc[w] = "publish"
    /\ Len(results) < resultsCap
    /\ results' = Append(results,
                     result(wres[w].files, wjob[w].dirName, wres[w].err, wres[w].late))
    /\ wpc' = [wpc EXCEPT ![w] = "range"]
    /\ wjob' = [wjob EXCEPT ![w] = NoJob]
    /\ wres' = [wres EXCEPT ![w] = NoRes]
    /\ whist' = [whist EXCEPT !.pub = @ + 1]
    /\ UNCHANGED << env, cancelled, tokens, jobs, jobsClosed, wexit, wdeqc, wsent,
                    cvars >>

\* select: case <-ctx.Done(): return
WPublishCancelled(w) ==
    /\ wpc[w] = "publish"
    /\ PublishAborts(cancelled)
    /\ WorkerReturns(w, "publish")
    /\ UNCHANGED << env, cancelled, tokens, jobs, jobsClosed, results, wdeqc, wsent,
                    whist, cvars >>

Worker(w) ==
    \/ WReceive(w)
    \/ WRangeEnds(w)
    \/ WBefore(w)
    \/ WLimiter(w)
    \/ WResponse(w)
    \/ WAfter(w)
    \/ WPublish(w)
    \/ WPublishCancelled(w)

(***************************************************************************)
(* The control loop (client.go:293-334).                                   *)
(***************************************************************************)
\* select: case <-ctx.Done(): return nil, ctx.Err()
CtlCancelled ==
    /\ cpc = "select"
    /\ cancelled
    /\ cpc' = "done"
    /\ ret' = CancelExit
    /\ UNCHANGED << env, cancelled, tokens, jobs, jobsClosed, results, wvars, pending,
                    allFiles, firstErr, todo, progressLog, errLog, lateUsed, chist,
                    closes >>

\* select: case r := <-results, up to the next point where the loop can block
CtlResult ==
    /\ cpc = "select"
    /\ results # << >>
    /\ LET r == Head(results)
           p == DecPending(pending)
       IN  /\ results' = Tail(results)
           /\ chist' = [chist EXCEPT !.cons = @ + 1]
           /\ IF r.err # NoErr
              THEN /\ firstErr' = RecordErr(firstErr, r.err)
                   /\ errLog' = Append(errLog, r.err)
                   /\ pending' = p
                   /\ LoopTest(p, firstErr', allFiles)
                   /\ UNCHANGED << allFiles, todo, progressLog, lateUsed >>
              ELSE /\ allFiles' = Accumulate(allFiles, r.files)
                   /\ lateUsed' = (lateUsed \/ r.late)
                   /\ progressLog' =
                         IF progress
                         THEN Append(progressLog, ProgressArgs(r, allFiles'))
                         ELSE progressLog
                   /\ todo' = Subdirs(r.files)
                   /\ IF todo' # << >>
                      THEN /\ pending' = IncPending(p)
                           /\ cpc' = "enqueue"
                           /\ UNCHANGED << jobsClosed, closes, ret >>
                      ELSE /\ pending' = p
                           /\ LoopTest(p, firstErr, allFiles')
                   /\ UNCHANGED << firstErr, errLog >>
    /\ UNCHANGED << env, cancelled, tokens, jobs, wvars >>

\* select: case jobs <- job{dirID: f.ID, dirName: f.Name}, then the next
\* sub-directory (pending++) or the loop test
CtlEnqueue ==
    /\ cpc = "enqueue"
    /\ Len(jobs) < jobsCap
    /\ jobs' = Append(jobs, job(Head(todo).ID, Head(todo).Name))
    /\ todo' = Tail(todo)
    /\ chist' = [chist EXCEPT !.enq = @ + 1]
    /\ IF todo' # << >>
       THEN /\ pending' = IncPending(pending)
            /\ UNCHANGED << cpc, jobsClosed, closes, ret >>
       ELSE /\ pending' = pending
            /\ LoopTest(pending, firstErr, allFiles)
    /\ UNCHANGED << env, cancelled, tokens, results, wvars, allFiles, firstErr,
                    progressLog, errLog, lateUsed >>

\* select: case <-ctx.Done(): return nil, ctx.Err()   (while enqueuing)
CtlEnqueueCancelled ==
    /\ cpc = "enqueue"
    /\ cancelled
    /\ cpc' = "done"
    /\ ret' = CancelExit
    /\ UNCHANGED << env, cancelled, tokens, jobs, jobsClosed, results, wvars, pending,
                    allFiles, firstErr, todo, progressLog, errLog, lateUsed, chist,
                    closes >>

Control ==
    \/ CtlCancelled
    \/ CtlResult
    \/ CtlEnqueue
    \/ CtlEnqueueCancelled

(***************************************************************************)
(* The steps of one call of doRequest.                                     *)
(***************************************************************************)
crawlvars == << server, fault, progress, jobs, jobsClosed, results, wvars, cvars >>

crawl == << crawlvars, lst, cmdvars >>

ReqReturns(c, data, err) ==
    [req[c] EXCEPT !.pc = "done", !.ret = [data |-> data, err |-> err]]

\* c.limiter.Wait(ctx): an error on a cancelled context, else one token
RWait(c) ==
    /\ req[c].pc = "wait"
    /\ IF WaitHonoursCtx(cancelled)
       THEN /\ req' = [req EXCEPT ![c] = ReqReturns(c, NoData, LimiterErr)]
            /\ UNCHANGED tokens
       ELSE /\ tokens > 0
            /\ tokens' = tokens - 1
            /\ req' = [req EXCEPT ![c].pc = "send", ![c].granted = @ + 1]
    /\ UNCHANGED << crawl, cancelled >>

\* http.NewRequestWithContext fails on a url that does not parse; else
\* c.httpClient.Do(req): the attempt is sent, unless the context is already
\* cancelled
RSend(c) ==
    /\ req[c].pc = "send"
    /\ req' =
          IF ~req[c].urlOK
          THEN [req EXCEPT ![c] = ReqReturns(c, NoData, RequestCreationErr)]
          ELSE IF cancelled
               THEN [req EXCEPT ![c] = ReqReturns(c, NoData, RequestAbortedErr)]
               ELSE [req EXCEPT ![c].pc = "flight", ![c].sent = @ + 1]
    /\ UNCHANGED << crawl, cancelled, tokens >>

\* Do returns and the body is read; the status decides (client.go:74-109)
RResponse(c) ==
    /\ req[c].pc = "flight"
    /\ \E a \in Answers(req[c].sent, cancelled) :
          LET seen == [req[c] EXCEPT !.resp = Append(@, a)]
              back(data, err) ==
                  [seen EXCEPT !.pc = "done", !.ret = [data |-> data, err |-> err]]
          IN  req' = [req EXCEPT ![c] =
                CASE a.kind = "aborted" -> back(NoData, RequestAbortedErr)
                  [] a.kind = "timeout" -> back(NoData, RequestTimeoutErr)
                  [] a.kind = "neterr" -> back(NoData, TransportErr)
                  [] a.kind = "readerr" -> back(NoData, ReadErr)
                  [] a.kind = "readtimeout" -> back(NoData, ReadTimeoutErr)
                  [] a.kind = "http" /\ a.status = 429 ->
                        IF CanRetry(seen.attempt)
                        THEN [seen EXCEPT !.pc = "backoff",
                                          !.delay = Backoff(seen.attempt)]
                        ELSE back(NoData, RateLimitedErr(RetriesNamed))
                  [] a.kind = "http" /\ a.status # 429 /\ IsAPIError(a.status) ->
                        back(NoData, APIStatusErr(a.status, a.body))
                  [] OTHER -> back(a.body, NoErr)]
    /\ UNCHANGED << crawl, cancelled, tokens >>

\* select: case <-time.After(delay), then continue and the loop test
RBackoffOver(c) ==
    /\ req[c].pc = "backoff"
    /\ LET waited == [req[c] EXCEPT !.waits = Append(@, req[c].delay),
                                    !.attempt = @ + 1, !.delay = 0]
       IN  req' = [req EXCEPT ![c] =
                     IF waited.attempt < maxRetries
                     THEN [waited EXCEPT !.pc = RetryEntry]
                     ELSE [waited EXCEPT !.pc = "done",
                                         !.ret = [data |-> NoData,
                                                  err |-> MaxRetriesErr]]]
    /\ UNCHANGED << crawl, cancelled, tokens >>

\* select: case <-ctx.Done(): return nil, ctx.Err()
RBackoffCancelled(c) ==
    /\ req[c].pc = "backoff"
    /\ cancelled
    /\ req' = [req EXCEPT ![c] = ReqReturns(c, NoData, CtxErr)]
    /\ UNCHANGED << crawl, cancelled, tokens >>

Request(c) ==
    \/ RWait(c)
    \/ RSend(c)
    \/ RResponse(c)
    \/ RBackoffOver(c)
    \/ RBackoffCancelled(c)

\* Concurrent calls of doRequest on one client, under a context that the
\* caller may cancel, each with a url that parses or one that does not; the
\* crawl's own state stays as set up.
InitReq ==
    /\ server = SmallTree
    /\ fault = [d \in DOMAIN server |-> "ok"]
    /\ progress = FALSE
    /\ \E u \in [Callers -> BOOLEAN] :
          StartWith([c \in Callers |-> [NewRequest EXCEPT !.urlOK = u[c]]])
    /\ lst = NoListing
    /\ scan = NoScan
    /\ tag = NoTag

ReqNext ==
    \/ Cancel
    \/ Refill
    \/ \E c \in Callers : Request(c)

ReqSpec == InitReq /\ [][ReqNext]_vars

(***************************************************************************)
(* The steps of one call of ListFiles.                                     *)
(***************************************************************************)
\* the path is built and c.doRequest(ctx, "GET", reqPath, nil) is called
LRequest ==
    /\ lst.pc = "request"
    /\ Len(lst.calls) < MaxCalls
    /\ lst' = [lst EXCEPT !.pc = "response",
                          !.calls = Append(@, ReqPath("files", lst.cursor))]
    /\ UNCHANGED << crawlvars, cmdvars, cancelled, tokens, req >>

\* doRequest returns; the body is decoded, checked and appended, and the
\* loop ends or goes on with the response's cursor (client.go:179-201)
LResponse ==
    /\ lst.pc = "response"
    /\ LET n == Len(lst.calls)
           page == lst.pages[PageAsked(lst.calls[n])]
           outcome == IF lst.failAt = n THEN lst.failAs ELSE "ok"
           fails(err) == [lst EXCEPT !.pc = "done",
                                     !.ret = ListFails(lst.allFiles, err)]
           acc == lst.allFiles \o page.data
       IN  lst' =
             CASE outcome = "transport" -> fails(TransportErr)
               [] outcome = "badjson" -> fails(JSONParseErr)
               [] outcome = "notsuccess" -> fails(ResultErr)
               [] OTHER ->
                    IF More(page)
                    THEN [lst EXCEPT !.pc = "request", !.allFiles = acc,
                                     !.cursor = NextCursor(lst.cursor, page)]
                    ELSE [lst EXCEPT !.pc = "done", !.allFiles = acc,
                                     !.ret = [files |-> acc, err |-> NoErr]]
    /\ UNCHANGED << crawlvars, cmdvars, cancelled, tokens, req >>

\* One call of ListFiles on a directory whose listing the server pages.
InitList ==
    /\ server = SmallTree
    /\ fault = [d \in DOMAIN server |-> "ok"]
    /\ progress = FALSE
    /\ Start
    /\ lst \in {l \in Listings : l.failAt <= Len(l.pages)}
    /\ scan = NoScan
    /\ tag = NoTag

ListNext ==
    \/ LRequest
    \/ LResponse

ListSpec == InitList /\ [][ListNext]_vars

\* One call of ListFiles on a server whose page chain is arbitrary.
InitChain ==
    /\ server = SmallTree
    /\ fault = [d \in DOMAIN server |-> "ok"]
    /\ progress = FALSE
    /\ Start
    /\ lst \in Chains
    /\ scan = NoScan
    /\ tag = NoTag

\* The loop of ListFiles keeps running: each request is answered and each
\* answer is handled.
ChainSpec == InitChain /\ [][ListNext]_vars /\ WF_vars(ListNext)

(***************************************************************************)
(* The steps of the scan command after its crawl.                          *)
(***************************************************************************)
others == << crawlvars, lst, cancelled, tokens, req >>

\* Convert to slice (only dirs with files) and sort (cmd/scan.go:100-119)
ScanSort ==
    /\ scan.pc = "stats"
    /\ \E r \in Sorted(scan.stats, scan.sortBy) :
          scan' = [scan EXCEPT !.pc = "sorted", !.results = r]
    /\ UNCHANGED << others, tag >>

\* Filter results (cmd/scan.go:121-148)
ScanFilter ==
    /\ scan.pc = "sorted"
    /\ scan' = [scan EXCEPT
                  !.pc = "report",
                  !.filtered = Filtered(scan.results, scan.all, scan.threshold,
                                        scan.top),
                  !.notice = Noticed(scan.results, scan.all, scan.threshold)]
    /\ UNCHANGED << others, tag >>

InitScan ==
    /\ server = SmallTree
    /\ fault = [d \in DOMAIN server |-> "ok"]
    /\ progress = FALSE
    /\ Start
    /\ lst = NoListing
    /\ scan \in Scans
    /\ tag = NoTag

ScanNext ==
    \/ ScanSort
    \/ ScanFilter

ScanSpec == InitScan /\ [][ScanNext]_vars

(***************************************************************************)
(* The steps of tag add / tag rm once the category is resolved.            *)
(***************************************************************************)
\* the file argument is parsed (cmd/tag.go:379-382, 439-442)
TagParse ==
    /\ tag.pc = "args"
    /\ LET r == ParseFileArg(tag.arg)
       IN  tag' = IF r.ok
                  THEN [tag EXCEPT !.pc = "collect", !.fileID = r.n]
                  ELSE [tag EXCEPT !.pc = "done", !.err = InvalidFileIDErr]
    /\ UNCHANGED << others, scan >>

\* collectFiles and buildFileMap: the entry itself, then its descendants;
\* then the loop test of the batch loop
TagCollect ==
    /\ tag.pc = "collect"
    /\ tag' = IF tag.getFails
              THEN [tag EXCEPT !.pc = "done", !.err = GetFileErr]
              ELSE [tag EXCEPT
                      !.pc = "batch",
                      !.ids = [j \in 1..tag.nids |->
                                 IF j = 1 THEN tag.fileID ELSE 1000 + j]]
    /\ UNCHANGED << others, scan >>

\* one iteration of the batch loop: AddCategoryToFiles or
\* RemoveCategoryFromFiles on fileIDs[i:end], then the loop test
TagBatch ==
    /\ tag.pc = "batch"
    /\ LET k == Len(tag.sent) + 1
           b == Batch(tag.ids, tag.i)
           outcome == IF tag.failAt = k THEN tag.failAs ELSE "ok"
           next == NextStart(tag.i)
       IN  tag' =
             IF outcome = "ok"
             THEN [tag EXCEPT !.sent = Append(@, b), !.applied = Append(@, b),
                              !.reported = @ + Len(b), !.i = next,
                              !.pc = IF next < Len(tag.ids) THEN "batch" ELSE "done"]
             ELSE [tag EXCEPT !.sent = Append(@, b),
                              !.applied = IF outcome = "lost" THEN Append(@, b) ELSE @,
                              !.err = BatchErr(k),
                              !.i = IF AfterBatchError = "done" THEN @ ELSE next,
                              !.pc = IF AfterBatchError = "done" \/ next >= Len(tag.ids)
                                     THEN "done" ELSE "batch"]
    /\ UNCHANGED << others, scan >>

InitTag ==
    /\ server = TagTree
    /\ fault = [d \in DOMAIN server |-> "ok"]
    /\ progress = FALSE
    /\ Start
    /\ lst = NoListing
    /\ scan = NoScan
    /\ tag \in Tags

TagNext ==
    \/ TagParse
    \/ TagCollect
    \/ TagBatch

TagSpec == InitTag /\ [][TagNext]_vars

Next ==
    \/ Cancel
    \/ Refill
    \/ Control
    \/ \E w \in Workers : Worker(w)

Spec == Init /\ [][Next]_vars

SharedSpec == InitShared /\ [][Next]_vars

WideSpec == InitWide /\ [][Next]_vars

\* The Go scheduler runs every goroutine that can take a step; the limiter
\* refills with time.  The caller is not obliged to cancel.
FairSpec ==
    /\ InitFan /\ [][Next]_vars
    /\ WF_vars(Control)
    /\ WF_vars(Refill)
    /\ \A w \in Workers : WF_vars(Worker(w))

(***************************************************************************)
(* Reference: a sequential, depth-first listing of the tree.               *)
(***************************************************************************)
Range(q) == {q[i] : i \in DOMAIN q}

\* The multiset of the elements of a sequence.
BagOf(q) == [x \in Range(q) |-> Cardinality({i \in DOMAIN q : q[i] = x})]

RECURSIVE Flatten(_)
Flatten(qq) == IF qq = << >> THEN << >> ELSE Head(qq) \o Flatten(Tail(qq))

\* The identifiers of the entries of kind directory in a listing, in order.
DirIDs(files) ==
    LET ds == SelectSeq(files, LAMBDA f : f.Type = "dir")
    IN  [i \in DOMAIN ds |-> ds[i].ID]

\* The entries a sequential listing of d and of every descendant returns.
RECURSIVE SeqFiles(_)
SeqFiles(d) ==
    LET subs == DirIDs(server[d])
    IN  server[d] \o Flatten([i \in DOMAIN subs |-> SeqFiles(subs[i])])

\* The directories whose listing is requested when no request is skipped: d,
\* and the directories discovered below it by the listings that succeed.
RECURSIVE SeqDirs(_)
SeqDirs(d) ==
    IF fault[d] # "ok" THEN << d >>
    ELSE LET subs == DirIDs(server[d])
         IN  << d >> \o Flatten([i \in DOMAIN subs |-> SeqDirs(subs[i])])

\* Some directory the crawl lists has a failing listing.
SomeListingFails == \E d \in Range(SeqDirs(RootID)) : fault[d] # "ok"

\* The crawl returned without the signal having been raised.
ReturnedUncancelled == cpc = "done" /\ ~cancelled

\* A worker holds a job: it is between receiving it and publishing its result.
Holding(w) == wpc[w] \in {"before", "limiter", "http", "after", "publish"}

(***************************************************************************)
(* C1.  When no listing fails and the crawl is not cancelled, the crawl    *)
(* returns without error exactly the multiset of entries of a sequential   *)
(* listing of the root and of every descendant directory (the root entry   *)
(* itself not included), whatever the interleaving.                        *)
(***************************************************************************)
C1_CrawlEqualsSequentialListing ==
    (ReturnedUncancelled /\ ~SomeListingFails) =>
        /\ ret.err = NoErr
        /\ BagOf(ret.files) = BagOf(SeqFiles(RootID))

\* The three-level tree was crawled to the end and its 6 entries returned.
C1_Witness ==
    /\ ReturnedUncancelled
    /\ ~SomeListingFails
    /\ server = DeepTree
    /\ Len(ret.files) = 6

(***************************************************************************)
(* C2.  An uncancelled crawl never reaches a state in which it has not     *)
(* returned and no goroutine can take a step: the control loop enqueuing   *)
(* jobs and the workers publishing results never block each other forever. *)
(***************************************************************************)
C2_CrawlNeverBlocks ==
    (cpc # "done" /\ ~cancelled) =>
        ENABLED (Refill \/ Control \/ \E w \in Workers : Worker(w))

(***************************************************************************)
(* C3.  In a crawl that is not cancelled, if the listing of at least one   *)
(* directory fails, the crawl returns no entries and a non-nil error.      *)
(***************************************************************************)
C3_FailedListingReturnsNothing ==
    (ReturnedUncancelled /\ SomeListingFails) =>
        /\ ret.files = << >>
        /\ ret.err # NoErr

\* Entries had been accumulated when the crawl returned the error.
C3_Witness ==
    /\ ReturnedUncancelled
    /\ SomeListingFails
    /\ allFiles # << >>
    /\ ret.files = << >>

(***************************************************************************)
(* C4.  Once a first error is recorded, no later step appends entries to   *)
(* the accumulated output, invokes the progress callback or enqueues a     *)
(* job.                                                                    *)
(***************************************************************************)
C4_OnlyDrainAfterFirstError ==
    [][firstErr # NoErr =>
          /\ allFiles' = allFiles
          /\ progressLog' = progressLog
          /\ Len(jobs') <= Len(jobs)]_vars

(***************************************************************************)
(* C5.  Whenever the signal was raised before the crawl returned, the      *)
(* crawl returned the cancellation error and no entries.                   *)
(***************************************************************************)
C5_CancellationAlwaysWins ==
    (cpc = "done" /\ cancelled) => ret = CancelExit

(***************************************************************************)
(* C6.  After the signal is raised every worker terminates: when the       *)
(* signal is raised and neither the control loop nor a worker can take a   *)
(* step any more, every worker goroutine has returned.                     *)
(***************************************************************************)
C6_WorkersExitAfterCancel ==
    (cancelled /\ ~ENABLED (Refill \/ Control \/ \E w \in Workers : Worker(w))) =>
        \A w \in Workers : wpc[w] = "exited"

(***************************************************************************)
(* C7.  After the signal is raised no worker stays blocked publishing a    *)
(* result; when the results channel is full and the control loop has       *)
(* returned, the worker returns.                                           *)
(***************************************************************************)
C7_PublisherNeverStuck ==
    \A w \in Workers :
        /\ (cancelled /\ wpc[w] = "publish") ~> (wpc[w] # "publish")
        /\ (cancelled /\ cpc = "done" /\ wpc[w] = "publish"
                /\ Len(results) = resultsCap) ~> (wpc[w] = "exited")

\* A worker returned from the publishing select, the channel full and the
\* control loop gone.
C7_Witness ==
    \E w \in Workers :
        /\ wexit[w] = "publish"
        /\ Len(results) = resultsCap
        /\ cpc = "done"

(***************************************************************************)
(* C8.  For a job dequeued after the signal was raised no HTTP request is  *)
(* sent, and the result of a listing that completed after the signal was   *)
(* raised is never published nor appended to the accumulated output.       *)
(***************************************************************************)
C8_NoDispatchAfterCancel ==
    /\ \A w \in Workers : wdeqc[w] => ~wsent[w]
    /\ \A w \in Workers : wpc[w] = "publish" => ~wres[w].late
    /\ \A i \in DOMAIN results : ~results[i].late
    /\ ~lateUsed

\* One worker returned with a job dequeued after the signal; another holds a
\* listing that succeeded after the signal.
C8_Witness ==
    /\ \E w \in Workers : wdeqc[w] /\ wexit[w] = "before"
    /\ \E w \in Workers :
          /\ wpc[w] = "after"
          /\ wsent[w]
          /\ wres[w].late
          /\ wres[w].err = NoErr

(***************************************************************************)
(* C9.  The pending counter is zero, and the loop exits normally, only     *)
(* when the job queue is empty, no worker holds a job and the results      *)
(* channel is empty; every directory of the sequential listing then had    *)
(* its result consumed.                                                    *)
(***************************************************************************)
C9_ZeroPendingMeansAllListed ==
    (pending = 0 \/ jobsClosed) =>
        /\ pending = 0
        /\ jobs = << >>
        /\ results = << >>
        /\ todo = << >>
        /\ \A w \in Workers : ~Holding(w)
        /\ Len(progressLog) + Len(errLog) = Len(SeqDirs(RootID))

\* The loop exited normally after the three listings of a tree were consumed.
C9_Witness ==
    /\ jobsClosed
    /\ pending = 0
    /\ Len(progressLog) >= 3

(***************************************************************************)
(* C10.  In a crawl that is not cancelled the error returned is the error  *)
(* of the first failing result received; the recorded error is always the  *)
(* first one received.                                                     *)
(***************************************************************************)
C10_FirstErrorReturned ==
    /\ errLog # << >> => firstErr = errLog[1]
    /\ (ReturnedUncancelled /\ errLog # << >>) => ret.err = errLog[1]

\* Two different errors were received, in that order, before the return.
C10_Witness ==
    /\ ReturnedUncancelled
    /\ Len(errLog) >= 2
    /\ errLog[1] # errLog[2]

(***************************************************************************)
(* C11.  A job is received by at most one worker and the listing is        *)
(* invoked at most once for it, also when the listing fails; when an       *)
(* uncancelled crawl returns, the job of every directory of the sequential *)
(* listing was received exactly once.  (In the trees of Trees a directory  *)
(* is discovered once, so a job is identified by its directory.)           *)
(***************************************************************************)
C11_JobTakenAndListedOnce ==
    /\ \A d \in DOMAIN server :
          /\ whist.recv[d] <= 1
          /\ whist.list[d] <= whist.recv[d]
    /\ ReturnedUncancelled =>
          \A d \in Range(SeqDirs(RootID)) :
              whist.recv[d] = 1 /\ whist.list[d] = 1

\* An uncancelled crawl returned after the listing of a directory failed, and
\* that listing was requested once.
C11_Witness ==
    /\ ReturnedUncancelled
    /\ \E d \in DOMAIN server :
          /\ fault[d] # "ok"
          /\ whist.recv[d] = 1
          /\ whist.list[d] = 1

RECURSIVE SumOver(_, _)
SumOver(f, S) ==
    IF S = {} THEN 0
    ELSE LET x == CHOOSE y \in S : TRUE
         IN  f[x] + SumOver(f, S \ {x})

\* Number of jobs received by the workers so far.
Received == SumOver(whist.recv, DOMAIN whist.recv)

(***************************************************************************)
(* C12.  In a crawl that is not cancelled every job taken by a worker that *)
(* the worker no longer holds produced exactly one result; every result    *)
(* published is in the results channel or was consumed; and when the crawl *)
(* returns, the number of results consumed equals the number of jobs       *)
(* enqueued.                                                               *)
(***************************************************************************)
C12_OneResultPerJob ==
    /\ ~cancelled =>
          Received = Cardinality({w \in Workers : Holding(w)}) + whist.pub
    /\ whist.pub = Len(results) + chist.cons
    /\ ReturnedUncancelled => chist.cons = chist.enq

\* An uncancelled crawl returned after consuming four results, one an error.
C12_Witness ==
    /\ ReturnedUncancelled
    /\ chist.cons = 4
    /\ chist.enq = 4
    /\ errLog # << >>

(***************************************************************************)
(* C13.  When the control loop exits because the pending counter reached   *)
(* zero, with or without a recorded error, the job queue was closed        *)
(* exactly once, holds no job and receives none, and every worker has      *)
(* returned or is at the range over the closed, empty queue and can        *)
(* return: none is blocked on the job queue or on the results channel.     *)
(***************************************************************************)
C13_NormalExitClosesAndReleases ==
    /\ closes <= 1
    /\ (jobsClosed <=> closes = 1)
    /\ (cpc = "done" /\ pending = 0) =>
          /\ jobsClosed
          /\ jobs = << >>
          /\ \A w \in Workers :
                \/ wpc[w] = "exited"
                \/ wpc[w] = "range" /\ ENABLED WRangeEnds(w)

\* The loop exited at zero with a recorded error and every worker returned
\* from the range over the closed queue.
C13_Witness ==
    /\ cpc = "done"
    /\ pending = 0
    /\ firstErr # NoErr
    /\ \A w \in Workers : wexit[w] = "closed"

(***************************************************************************)
(* Reference notions for one call of doRequest, stated on the history of   *)
(* the call: the responses it received and the waits it performed.         *)
(***************************************************************************)
\* The i-th response of the call was an HTTP response with status st.
Answered(r, i, st) ==
    /\ i \in 1..Len(r.resp)
    /\ r.resp[i].kind = "http"
    /\ r.resp[i].status = st

\* Every response the call received so far was an HTTP 429.
Only429(r) == \A i \in 1..Len(r.resp) : Answered(r, i, 429)

\* Total of the backoff waits performed, in seconds.
Waited(r) == SumOver(r.waits, DOMAIN r.waits)

Returned(r) == r.pc = "done"

RateLimited(r) == r.ret.err[1] = "API rate limited (429) after retries"

(***************************************************************************)
(* C14.  A call that is not cancelled, whose attempts reach the server (its *)
(* url parses) and which gets HTTP 429 on every attempt returns only after *)
(* exactly 3 attempts, with the rate-limited error; no call ever sends a   *)
(* 4th attempt or returns 'max retries exceeded'.                          *)
(***************************************************************************)
C14_ThreeAttemptsThenRateLimited ==
    \A c \in Callers :
        /\ req[c].sent <= 3
        /\ req[c].ret.err # << "max retries exceeded" >>
        /\ (req[c].urlOK /\ Only429(req[c]) /\ ~cancelled) =>
              IF Returned(req[c])
              THEN /\ req[c].sent = 3
                   /\ Len(req[c].resp) = 3
                   /\ RateLimited(req[c])
              ELSE Len(req[c].resp) < 3

\* An uncancelled call returned the rate-limited error after three 429s.
C14_Witness ==
    /\ ~cancelled
    /\ \E c \in Callers :
          /\ Returned(req[c])
          /\ Only429(req[c])
          /\ req[c].sent = 3
          /\ RateLimited(req[c])

(***************************************************************************)
(* C15.  A call sends at most 2 attempts after the first, and once an      *)
(* uncancelled call has returned, the wait it performed after its k-th     *)
(* consecutive 429 is 2^(k-1) seconds, for k = 1, 2, 3.                    *)
(***************************************************************************)
C15_WaitAfterEach429 ==
    \A c \in Callers :
        /\ req[c].sent <= 1 + 2
        /\ (Returned(req[c]) /\ ~cancelled) =>
              \A k \in 1..3 :
                  (\A i \in 1..k : Answered(req[c], i, 429)) =>
                      /\ Len(req[c].waits) >= k
                      /\ req[c].waits[k] = 2 ^ (k - 1)

(***************************************************************************)
(* C16.  A call answered 429, 429 and then 200 returns without error the   *)
(* body of the third response, after waits that sum to at least 3 seconds. *)
(***************************************************************************)
C16_TwoRetriesThenSuccess ==
    \A c \in Callers :
        (/\ Len(req[c].resp) = 3
         /\ Answered(req[c], 1, 429)
         /\ Answered(req[c], 2, 429)
         /\ Answered(req[c], 3, 200)) =>
            /\ Returned(req[c])
            /\ req[c].ret.err = << "nil" >>
            /\ req[c].ret.data = req[c].resp[3].body
            /\ req[c].ret.data # req[c].resp[1].body
            /\ Waited(req[c]) >= 1 + 2

\* A call was answered 429, 429, 200 and returned.
C16_Witness ==
    \E c \in Callers :
        /\ Returned(req[c])
        /\ Len(req[c].resp) = 3
        /\ Answered(req[c], 3, 200)
        /\ req[c].waits = << 1, 2 >>

(***************************************************************************)
(* C17.  The count named in the rate-limited error is the number of        *)
(* re-sends the call performed after its first attempt.                    *)
(***************************************************************************)
C17_NamedCountIsRetriesPerformed ==
    \A c \in Callers :
        (Returned(req[c]) /\ RateLimited(req[c])) =>
            req[c].ret.err[2] = req[c].sent - 1

(***************************************************************************)
(* C18.  Once the context is cancelled, a call that is waiting out a       *)
(* backoff, or that left the backoff for the limiter, acquires no token    *)
(* and sends no attempt: it returns the context's error from the select,   *)
(* or the limiter's cancellation error on its next step.                   *)
(***************************************************************************)
C18_CancelDuringBackoff ==
    [][\A c \in Callers :
          (cancelled /\ req[c].pc \in {"backoff", "wait"} /\ req'[c] # req[c]) =>
              /\ req'[c].granted = req[c].granted
              /\ req'[c].sent = req[c].sent
              /\ req'[c].resp = req[c].resp
              /\ req'[c].pc \in {"wait", "done"}
              /\ req[c].pc = "wait" => req'[c].pc = "done"
              /\ req'[c].pc = "done" =>
                    req'[c].ret.err \in {<< "context canceled" >>,
                                         << "rate limiter: context canceled" >>}]_vars

\* One call returned the context's error from the backoff select, another
\* left its backoff and was refused by the limiter; neither sent again.
C18_Witness ==
    /\ cancelled
    /\ \E c \in Callers :
          /\ Returned(req[c])
          /\ req[c].ret.err = << "context canceled" >>
          /\ req[c].sent = Len(req[c].resp)
    /\ \E c \in Callers :
          /\ Returned(req[c])
          /\ req[c].ret.err = << "rate limiter: context canceled" >>
          /\ Len(req[c].waits) >= 1
          /\ req[c].granted = Len(req[c].resp)

(***************************************************************************)
(* C19.  A response with a status >= 400 other than 429, on the first      *)
(* attempt or after retries, makes the call return at once an error that   *)
(* carries that status and that body: nothing is sent after it and no      *)
(* backoff follows it.                                                     *)
(***************************************************************************)
C19_ErrorStatusFailsAtOnce ==
    \A c \in Callers :
        LET n == Len(req[c].resp)
        IN  (/\ n > 0
             /\ req[c].resp[n].kind = "http"
             /\ req[c].resp[n].status >= 400
             /\ req[c].resp[n].status # 429) =>
                /\ Returned(req[c])
                /\ req[c].ret.err =
                      << "API error", req[c].resp[n].status, req[c].resp[n].body >>
                /\ req[c].ret.data = << >>
                /\ req[c].sent = n
                /\ Len(req[c].waits) = n - 1

\* Both kinds of error status were met, one of them after a 429 retry.
C19_Witness ==
    /\ \E c \in Callers :
          /\ Returned(req[c])
          /\ Len(req[c].resp) = 2
          /\ Answered(req[c], 2, 404)
    /\ \E c \in Callers :
          /\ Returned(req[c])
          /\ Answered(req[c], Len(req[c].resp), 500)

(***************************************************************************)
(* C20.  Every attempt a call sends was preceded by its own token from the *)
(* shared limiter, so over all callers the attempts sent never exceed the  *)
(* tokens granted; and a call waiting for a token under a cancelled        *)
(* context returns an error on its next step without sending.              *)
(***************************************************************************)
C20_TokenBeforeEveryAttempt ==
    /\ [](/\ \A c \in Callers :
                /\ req[c].sent <= req[c].granted
                /\ req[c].pc = "send" => req[c].granted = req[c].sent + 1
                /\ req[c].pc \in {"wait", "flight", "backoff"} =>
                      req[c].granted = req[c].sent
          /\ SumOver([c \in Callers |-> req[c].sent], Callers)
                <= SumOver([c \in Callers |-> req[c].granted], Callers))
    /\ [][\A c \in Callers :
             (cancelled /\ req[c].pc = "wait" /\ req'[c] # req[c]) =>
                 /\ req'[c].pc = "done"
                 /\ req'[c].ret.err # << "nil" >>
                 /\ req'[c].ret.data = << >>
                 /\ req'[c].sent = req[c].sent]_vars

\* Two concurrent calls each sent a retry on a token of its own, and a call
\* refused by the limiter returned with as many attempts as tokens.
C20_Witness ==
    /\ \A c \in Callers : req[c].sent >= 2 /\ req[c].granted = req[c].sent
    /\ \E c \in Callers :
          /\ Returned(req[c])
          /\ req[c].ret.err = << "rate limiter: context canceled" >>

(***************************************************************************)
(* C21.  Every attempt abandoned because its 30s limit elapsed, while the  *)
(* request is sent and answered or while the response body is read, makes  *)
(* the call return the timeout error.                                      *)
(***************************************************************************)
C21_ElapsedLimitIsTimeoutError ==
    \A c \in Callers :
        \A i \in 1..Len(req[c].resp) :
            req[c].resp[i].kind \in {"timeout", "readtimeout"} =>
                /\ Returned(req[c])
                /\ req[c].ret.err = << "request timeout after 30s" >>

\* The error of a request abandoned on its 30s limit.
IsTimeout(e) == e[1] = "request timeout after 30s"

(***************************************************************************)
(* C22.  A request timeout in one worker's listing leaves the cancellation *)
(* signal and the other workers as they are; without cancellation the      *)
(* worker goes on to publish the timeout as the error of its result, no    *)
(* worker returns before the queue is closed, and a crawl whose first      *)
(* failed result is a timeout returns that error, not a cancellation, with *)
(* the pending counter at zero.                                            *)
(***************************************************************************)
C22_TimeoutIsNotCancellation ==
    /\ [][\A w \in Workers :
             /\ (wpc[w] = "http" /\ wpc'[w] = "after" /\ IsTimeout(wres'[w].err)) =>
                   /\ cancelled' = cancelled
                   /\ \A v \in Workers \ {w} :
                         wpc'[v] = wpc[v] /\ wexit'[v] = wexit[v]
             /\ (/\ wpc[w] = "after"
                 /\ IsTimeout(wres[w].err)
                 /\ ~cancelled
                 /\ wpc'[w] # "after") =>
                   wpc'[w] = "publish" /\ wres'[w] = wres[w]
             /\ (/\ wpc[w] = "publish"
                 /\ IsTimeout(wres[w].err)
                 /\ ~cancelled
                 /\ wpc'[w] # "publish") =>
                   /\ Len(results') = Len(results) + 1
                   /\ results'[Len(results')].err = wres[w].err
                   /\ results'[Len(results')].dirName = wjob[w].dirName]_vars
    /\ []((~cancelled /\ ~jobsClosed) => \A w \in Workers : wpc[w] # "exited")
    /\ []((ReturnedUncancelled /\ errLog # << >> /\ IsTimeout(errLog[1])) =>
             /\ ret.err = errLog[1]
             /\ ret.err # << "context canceled" >>
             /\ ret.files = << >>
             /\ pending = 0)

\* An uncancelled crawl returned the timeout of one listing while other
\* listings were published and consumed as well.
C22_Witness ==
    /\ ReturnedUncancelled
    /\ errLog # << >>
    /\ IsTimeout(errLog[1])
    /\ ret.err = errLog[1]
    /\ chist.cons >= 3
    /\ allFiles # << >>

(***************************************************************************)
(* Reference notions for one call of ListFiles, stated on the server's     *)
(* pages and on the history of the calls issued.                           *)
(***************************************************************************)
\* The entries of pages 1..n in server order.
RECURSIVE PagesUpTo(_, _)
PagesUpTo(pages, n) ==
    IF n = 0 THEN << >> ELSE PagesUpTo(pages, n - 1) \o pages[n].data

\* K: the number of entries of the directory.
EntryCount(pages) == SumOver([i \in DOMAIN pages |-> Len(pages[i].data)], DOMAIN pages)

\* The response the server gave to the i-th call.
Answer(i) == lst.pages[PageAsked(lst.calls[i])]

ListReturned == lst.pc = "done"

(***************************************************************************)
(* C23.  When no page request fails, ListFiles accumulates the pages in    *)
(* server order and returns exactly their concatenation: K entries, none   *)
(* duplicated, none omitted, whatever the number and sizes of the pages.   *)
(***************************************************************************)
C23_ListIsConcatenationOfPages ==
    lst.pc # "idle" =>
        LET P == Len(lst.pages)
            all == PagesUpTo(lst.pages, P)
        IN  /\ \E n \in 0..P : lst.allFiles = PagesUpTo(lst.pages, n)
            /\ (ListReturned /\ lst.failAt = 0) =>
                  /\ lst.ret.err = << "nil" >>
                  /\ lst.ret.files = all
                  /\ Len(lst.ret.files) = EntryCount(lst.pages)
                  /\ \A i, j \in 1..Len(lst.ret.files) :
                        lst.ret.files[i].ID = lst.ret.files[j].ID => i = j
                  /\ \A q \in 1..P : \A k \in 1..Len(lst.pages[q].data) :
                        \E i \in 1..Len(lst.ret.files) :
                            lst.ret.files[i] = lst.pages[q].data[k]

\* A listing of four entries over three pages, one of them empty, returned.
C23_Witness ==
    /\ ListReturned
    /\ lst.failAt = 0
    /\ Len(lst.pages) = 3
    /\ \E q \in 1..2 : lst.pages[q].data = << >>
    /\ Len(lst.ret.files) = 4

(***************************************************************************)
(* C24.  ListFiles issues one call per page: the first call carries no     *)
(* cursor, every later call carries the cursor of the response to the call *)
(* before it, every response but the last had has-more true, and a listing *)
(* of P pages that returns without failure issued exactly P calls.         *)
(***************************************************************************)
C24_OneCallPerPage ==
    lst.pc # "idle" =>
        LET n == Len(lst.calls)
        IN  /\ n <= Len(lst.pages)
            /\ n >= 1 => lst.calls[1] = << "files" >>
            /\ \A i \in 2..n :
                  /\ lst.calls[i] = << "files", "?cursor=", Answer(i - 1).cursor >>
                  /\ Answer(i - 1).hasMore
                  /\ PageAsked(lst.calls[i]) = i
            /\ (lst.pc = "request" /\ n >= 1) => Answer(n).hasMore
            /\ (ListReturned /\ lst.failAt = 0) =>
                  /\ n = Len(lst.pages)
                  /\ ~Answer(n).hasMore

\* A three-page listing returned after three calls although its last page
\* carried a left-over cursor.
C24_Witness ==
    /\ ListReturned
    /\ lst.failAt = 0
    /\ Len(lst.calls) = 3
    /\ lst.pages[3].cursor # ""

(***************************************************************************)
(* C25.  When the request of a page fails (error of the transport,         *)
(* undecodable body, result other than success), ListFiles returns that    *)
(* error with no entries, whatever it had accumulated, and issues no       *)
(* further call.                                                           *)
(***************************************************************************)
C25_PageFailureReturnsNothing ==
    (lst.pc # "idle" /\ lst.failAt > 0) =>
        /\ Len(lst.calls) <= lst.failAt
        /\ (Len(lst.calls) = lst.failAt /\ lst.pc # "response") =>
              /\ ListReturned
              /\ lst.ret.files = << >>
              /\ lst.ret.err =
                    CASE lst.failAs = "transport" -> << "HTTP request error" >>
                      [] lst.failAs = "badjson" -> << "JSON parse error" >>
                      [] lst.failAs = "notsuccess" -> << "API error: error" >>

\* The third page failed after two non-empty pages were accumulated, for
\* a body that does not decode.
C25_Witness ==
    /\ ListReturned
    /\ lst.failAt = 3
    /\ lst.failAs = "badjson"
    /\ Len(lst.allFiles) >= 2
    /\ lst.ret.files = << >>

(***************************************************************************)
(* C26.  Only the control loop writes the pending counter, the accumulated *)
(* entries and the recorded error, and only it takes results out of the    *)
(* channel: a step in which a worker moves leaves them unchanged and at    *)
(* most appends one result.  The control loop takes a result only when the *)
(* previous one is handled completely: nothing is left to enqueue and the  *)
(* counter equals the jobs enqueued minus the results taken.               *)
(***************************************************************************)
C26_ControlLoopIsSoleWriter ==
    /\ [][/\ (wpc' # wpc \/ wjob' # wjob \/ wres' # wres \/ wexit' # wexit) =>
                /\ pending' = pending
                /\ allFiles' = allFiles
                /\ firstErr' = firstErr
                /\ todo' = todo
                /\ cpc' = cpc
                /\ results' = results
                      \/ (Len(results') = Len(results) + 1
                          /\ SubSeq(results', 1, Len(results)) = results)
          /\ (/\ \/ pending' # pending
                 \/ allFiles' # allFiles
                 \/ firstErr' # firstErr
                 \/ (results # << >> /\ results' = Tail(results))) =>
                /\ cpc \in {"select", "enqueue"}
                /\ wpc' = wpc
                /\ wjob' = wjob
                /\ wres' = wres
          /\ chist'.cons # chist.cons =>
                /\ cpc = "select"
                /\ todo = << >>
                /\ pending = chist.enq - chist.cons
                /\ chist'.cons = chist.cons + 1
                /\ results' = Tail(results)]_vars
    /\ [](/\ cpc = "enqueue" => (todo # << >> /\ pending = chist.enq - chist.cons + 1)
          /\ cpc = "select" => (todo = << >> /\ pending = chist.enq - chist.cons))

\* The control loop is between two enqueues of one result while the result
\* of the job it enqueued first already waits in the channel.
C26_Witness ==
    /\ cpc = "enqueue"
    /\ Len(todo) = 1
    /\ chist.cons >= 2
    /\ results # << >>
    /\ whist.pub >= 3

\* The names of the directory entries of the server.
DirNames ==
    UNION {{server[d][k].Name : k \in {i \in DOMAIN server[d] : server[d][i].Type = "dir"}} :
              d \in DOMAIN server}

(***************************************************************************)
(* C27.  With a progress callback, the control loop calls it exactly once  *)
(* for every result without error that it takes and never for a result    *)
(* with an error; each call gets the directory name of that result's job   *)
(* and the number of entries accumulated so far, so the counts never       *)
(* decrease and the last count of a successful crawl is the number of      *)
(* entries returned.                                                       *)
(***************************************************************************)
C27_ProgressOncePerSuccess ==
    /\ [][progressLog' # progressLog =>
             /\ results # << >>
             /\ results' = Tail(results)
             /\ Head(results).err = << "nil" >>
             /\ progressLog' =
                   Append(progressLog, << Head(results).dirName,
                                          Len(allFiles) + Len(Head(results).files) >>)
             /\ progressLog'[Len(progressLog')][2] = Len(allFiles')]_vars
    /\ [][(results # << >> /\ results' = Tail(results) /\ progress) =>
             (Len(progressLog') = Len(progressLog) + 1
                 <=> Head(results).err = << "nil" >>)]_vars
    /\ [](progress =>
             /\ Len(progressLog) = chist.cons - Len(errLog)
             /\ \A i \in 1..Len(progressLog) : \A j \in i..Len(progressLog) :
                   progressLog[i][2] <= progressLog[j][2]
             /\ progressLog # << >> => progressLog[1][1] = "root"
             /\ \A i \in 2..Len(progressLog) : progressLog[i][1] \in DirNames
             /\ (ReturnedUncancelled /\ ret.err = << "nil" >>) =>
                   /\ progressLog # << >>
                   /\ progressLog[Len(progressLog)][2] = Len(ret.files))

\* A crawl with a failed listing returned: the callback ran for the other
\* results only, the last time for a sub-directory.
C27_Witness ==
    /\ cpc = "done"
    /\ progress
    /\ Len(errLog) = 1
    /\ Len(progressLog) >= 3
    /\ progressLog[Len(progressLog)][1] # "root"
    /\ progressLog[Len(progressLog)][2] > progressLog[1][2]

(***************************************************************************)
(* C28.  A crawl whose signal was raised while an error was recorded and   *)
(* results were still pending returns the recorded error, without entries. *)
(***************************************************************************)
C28_RecordedErrorSurvivesCancel ==
    (cpc = "done" /\ chist.errAtSignal) =>
        /\ ret.err = firstErr
        /\ ret.files = << >>

\* Every child is reported with the identifier of the directory it was
\* listed under.
ParentsAreListingDirs ==
    \A d \in DOMAIN server : \A k \in DOMAIN server[d] : server[d][k].ParentID = d

(***************************************************************************)
(* C29.  On a server that reports every child with the identifier of the   *)
(* directory it was listed under, the parent identifier of every entry     *)
(* returned by a successful crawl is the identifier of the crawl's root or *)
(* of a directory entry that is itself returned.                           *)
(***************************************************************************)
C29_ParentsAreReturned ==
    (ParentsAreListingDirs /\ cpc = "done" /\ ret.err = << "nil" >>) =>
        \A i \in 1..Len(ret.files) :
            \/ ret.files[i].ParentID = RootID
            \/ \E j \in 1..Len(ret.files) :
                  /\ ret.files[j].Type = "dir"
                  /\ ret.files[j].ID = ret.files[i].ParentID

\* A successful crawl returned an entry two levels below the root.
C29_Witness ==
    /\ cpc = "done"
    /\ ret.err = << "nil" >>
    /\ ParentsAreListingDirs
    /\ \E i, j \in 1..Len(ret.files) :
          /\ ret.files[i].ParentID = ret.files[j].ID
          /\ ret.files[j].ParentID # RootID

(***************************************************************************)
(* C30.  Without --all, every directory of the scan report has at least    *)
(* as many direct files as the threshold given by -t, whatever the scan    *)
(* found.                                                                  *)
(***************************************************************************)
C30_ReportRespectsThreshold ==
    (scan.pc = "report" /\ ~scan.all) =>
        \A i \in 1..Len(scan.filtered) :
            scan.filtered[i].FileCount >= scan.threshold

\* The file argument is not a number: it is a path (strconv.Atoi fails).
IsPath(a) == ~Atoi(a).ok

\* What resolveFileID gives for the file argument of the run followed.
Resolved == resolveFileID(server, fault, tag.getFails, tag.arg)

(***************************************************************************)
(* C31.  tag add and tag rm given a path as file argument do not fail with *)
(* the invalid-file_id error: a path that names an entry of the server is  *)
(* resolved to the identifier of that entry, and the first category        *)
(* request starts with it.                                                 *)
(***************************************************************************)
C31_PathArgumentIsResolved ==
    (tag.pc \in {"collect", "batch", "done"} /\ IsPath(tag.arg)) =>
        /\ tag.err # << "invalid file_id" >>
        /\ Resolved.err = << "nil" >> =>
              /\ tag.fileID = Resolved.id
              /\ tag.sent # << >> => tag.sent[1][1] = Resolved.id

\* The batches sent are contiguous pieces of the collected identifiers, in
\* order, of 1..batchSize identifiers each, every position in one batch; a
\* run that ends without error has sent them all.
BatchesPartitionIDs ==
    /\ \A k \in 1..Len(tag.sent) : Len(tag.sent[k]) \in 1..batchSize
    /\ Len(Flatten(tag.sent)) <= Len(tag.ids)
    /\ Flatten(tag.sent) = SubSeq(tag.ids, 1, Len(Flatten(tag.sent)))
    /\ (tag.pc = "done" /\ tag.err = << "nil" >>) => Flatten(tag.sent) = tag.ids

\* The request of batch k failed: the command returned that error at once
\* and sent no later batch.
FailedAtOnce ==
    (tag.failAt > 0 /\ Len(tag.sent) >= tag.failAt) =>
        /\ tag.pc = "done"
        /\ Len(tag.sent) = tag.failAt
        /\ tag.err = << "batch request error", tag.failAt >>

(***************************************************************************)
(* C36 (as stated).  The identifiers are sent in contiguous batches of at  *)
(* most batchSize, in order, each in exactly one batch; a failed batch     *)
(* request ends the command at once, and after a failure at batch k        *)
(* exactly the first k-1 batches have been applied on the server.          *)
(***************************************************************************)
C36_ExactlyEarlierBatchesApplied ==
    tag.pc \in {"batch", "done"} =>
        /\ BatchesPartitionIDs
        /\ FailedAtOnce
        /\ (tag.failAt > 0 /\ Len(tag.sent) >= tag.failAt) =>
              tag.applied = SubSeq(tag.sent, 1, tag.failAt - 1)

(***************************************************************************)
(* C36 (amended).  The identifiers are sent in contiguous batches of at    *)
(* most batchSize, in order, each in exactly one batch; a failed batch     *)
(* request ends the command at once with nothing rolled back: after a      *)
(* failure at batch k the first k-1 batches are applied, no batch after k  *)
(* is, and batch k itself is applied or not, depending on whether the      *)
(* server had acted when the request failed.                               *)
(***************************************************************************)
C36_EarlierBatchesStayApplied ==
    tag.pc \in {"batch", "done"} =>
        /\ BatchesPartitionIDs
        /\ FailedAtOnce
        /\ (tag.failAt > 0 /\ Len(tag.sent) >= tag.failAt) =>
              /\ Len(tag.applied) \in {tag.failAt - 1, tag.failAt}
              /\ tag.applied = SubSeq(tag.sent, 1, Len(tag.applied))
        /\ (tag.failAt = 0 \/ Len(tag.sent) < tag.failAt) => tag.applied = tag.sent

\* The third batch of five identifiers failed after the server had applied
\* it: the command returned the error with all three batches applied.
C36_Witness ==
    /\ tag.pc = "done"
    /\ tag.failAt = 3
    /\ Len(tag.ids) = 5
    /\ Len(tag.sent) = 3
    /\ Len(tag.applied) = 3
    /\ tag.err = << "batch request error", 3 >>

\* The jobs in flight: queued, held by a worker, or answered and not yet taken.
InFlight == Len(jobs) + Cardinality({w \in Workers : Holding(w)}) + Len(results)

(***************************************************************************)
(* C32.  In a crawl that is not cancelled, the pending counter equals the  *)
(* jobs in the queue plus the workers holding a job plus the results in    *)
(* the channel whenever the control loop is about to wait for a result     *)
(* (or has left the loop); it is 1 before the first result is taken, it is *)
(* never negative, and while the control loop is enqueuing a sub-directory *)
(* it exceeds that sum by exactly one.                                     *)
(***************************************************************************)
C32_PendingCountsJobsInFlight ==
    /\ pending >= 0
    /\ ~cancelled =>
          /\ cpc \in {"select", "done"} => pending = InFlight
          /\ cpc = "enqueue" => pending = InFlight + 1
          /\ (chist.cons = 0 /\ chist.enq = 1) => (pending = 1 /\ cpc = "select")

\* The control loop is blocked on the second sub-directory of a listing
\* while a worker already holds the first one.
C32_Witness ==
    /\ ~cancelled
    /\ cpc = "enqueue"
    /\ Len(todo) = 1
    /\ pending = 2
    /\ jobs = << >>
    /\ \E w \in Workers : Holding(w)

\* An error that ListFiles returns because the shared context was cancelled.
IsCancelErr(e) == e = LimiterErr \/ \E d \in DOMAIN server : e = AbortErr(d)

\* Worker w returned at the check after a listing for which no request was
\* sent: the limiter refused it on the cancelled context.
ExitedOnCancelErr(w) == wexit[w] = "after" /\ ~wsent[w]

(***************************************************************************)
(* C33.  An error produced by cancellation never becomes the recorded      *)
(* first error: it is in no published result, in no error the control loop *)
(* took and not in firstErr; a worker whose listing failed because the     *)
(* signal was raised leaves the check after the request by returning,      *)
(* without publishing; from then on the pending counter stays positive,    *)
(* the jobs channel is not closed, and when the crawl returns it returns   *)
(* the context's error.                                                    *)
(***************************************************************************)
C33_CancelErrorIsNeverRecorded ==
    /\ [](/\ ~IsCancelErr(firstErr)
          /\ \A i \in 1..Len(results) : ~IsCancelErr(results[i].err)
          /\ \A i \in 1..Len(errLog) : ~IsCancelErr(errLog[i])
          /\ \A w \in Workers :
                /\ (wpc[w] \in {"after", "publish"} /\ IsCancelErr(wres[w].err)) =>
                      (wpc[w] = "after" /\ cancelled /\ pending > 0)
                /\ ExitedOnCancelErr(w) =>
                      /\ pending > 0
                      /\ ~jobsClosed
                      /\ cpc = "done" => ret = CancelExit)
    /\ [][\A w \in Workers :
            (wpc[w] = "after" /\ IsCancelErr(wres[w].err) /\ wpc'[w] # "after") =>
                /\ wpc'[w] = "exited"
                /\ wexit'[w] = "after"
                /\ results' = results
                /\ pending' = pending
                /\ pending > 0]_vars

\* The limiter refused a worker's listing on the cancelled context, the
\* worker returned without publishing, and the crawl returned ctx.Err().
C33_Witness ==
    /\ \E w \in Workers : ExitedOnCancelErr(w)
    /\ cpc = "done"
    /\ ret = CancelExit
    /\ pending > 0
    /\ firstErr = NoErr

\* How many entries of a sequence equal f.
CountOf(q, f) == Cardinality({i \in DOMAIN q : q[i] = f})

\* How many entries of kind directory of a sequence carry the identifier d.
DirEntriesOf(q, d) ==
    Cardinality({i \in DOMAIN q : q[i].Type = "dir" /\ q[i].ID = d})

\* How many entries of a sequence are of kind directory.
DirEntries(q) == Cardinality({i \in DOMAIN q : q[i].Type = "dir"})

(***************************************************************************)
(* C34.  The crawler keeps no visited set.  The jobs enqueued so far, plus *)
(* the sub-directories of the current result still to enqueue, are 1 (the  *)
(* root job) plus the entries of kind directory in the accumulated output, *)
(* with multiplicity.  When an uncancelled crawl has returned, every       *)
(* directory was listed as many times as its identifier occurs among those *)
(* entries (once more for the root), and every entry of a directory whose  *)
(* listing succeeds is in the output as many times as the directory was    *)
(* listed.                                                                 *)
(***************************************************************************)
C34_NoVisitedSet ==
    /\ chist.enq + Len(todo) = 1 + DirEntries(allFiles)
    /\ ReturnedUncancelled =>
          /\ chist.enq = 1 + DirEntries(allFiles)
          /\ \A d \in DOMAIN server :
                /\ whist.recv[d] =
                      DirEntriesOf(allFiles, d) + (IF d = RootID THEN 1 ELSE 0)
                /\ whist.list[d] = whist.recv[d]
                /\ fault[d] = "ok" =>
                      \A k \in DOMAIN server[d] :
                          CountOf(allFiles, server[d][k]) = whist.list[d]

\* An uncancelled crawl returned: the directory S, which two listings
\* returned, was listed twice and its file x is twice in the output.
C34_Witness ==
    /\ ReturnedUncancelled
    /\ ret.err = NoErr
    /\ chist.enq = 4
    /\ whist.list[30] = 2
    /\ CountOf(ret.files, File(32, "x", "file", 30)) = 2

\* The page that follows page i in the server's chain: the page its cursor
\* names, or the first page when the cursor is empty.
FollowingPage(pages, i) ==
    IF pages[i].cursor = "" THEN 1
    ELSE CHOOSE j \in 1..Len(CursorNames) : CursorNames[j] = pages[i].cursor

\* The chain followed from page i reaches a page with has_more false within
\* k more pages.
RECURSIVE ChainReachesEnd(_, _, _)
ChainReachesEnd(pages, i, k) ==
    \/ ~pages[i].hasMore
    \/ k > 0 /\ ChainReachesEnd(pages, FollowingPage(pages, i), k - 1)

ChainEnds == ChainReachesEnd(lst.pages, 1, Len(lst.pages))

\* The entries of the answers to the first n requests, in order.
RECURSIVE AnswersUpTo(_)
AnswersUpTo(n) == IF n = 0 THEN << >> ELSE AnswersUpTo(n - 1) \o Answer(n).data

(***************************************************************************)
(* C35.  ListFiles returns if and only if the server's page chain reaches  *)
(* a response with has_more false.  The request for the next page carries  *)
(* a cursor parameter exactly when the cursor of the previous response is  *)
(* not empty; after a response with has_more true and an empty cursor the  *)
(* next request is the first-page request again, and the entries of every  *)
(* answer, received before or not, are appended to the accumulated ones.   *)
(***************************************************************************)
C35_TerminatesIffChainEnds ==
    /\ [](lst.pc # "idle" =>
            LET n == Len(lst.calls)
                handled == IF lst.pc = "response" THEN n - 1 ELSE n
            IN  /\ ListReturned => ChainEnds
                /\ n >= 1 => lst.calls[1] = << "files" >>
                /\ \A i \in 2..n :
                      /\ Answer(i - 1).hasMore
                      /\ Len(lst.calls[i]) = 3 <=> Answer(i - 1).cursor # ""
                      /\ Len(lst.calls[i]) = 3 =>
                            lst.calls[i] = << "files", "?cursor=", Answer(i - 1).cursor >>
                      /\ Answer(i - 1).cursor = "" =>
                            /\ lst.calls[i] = lst.calls[1]
                            /\ Answer(i) = Answer(1)
                /\ lst.allFiles = AnswersUpTo(handled))
    /\ (lst.pc # "idle" /\ ChainEnds) ~> ListReturned

\* The second page had has_more true and an empty cursor: the third request
\* was the first-page request again, the entry of the first page is twice
\* in the accumulated entries, and the loop is still running at the bound.
C35_Witness ==
    /\ lst.pc = "request"
    /\ Len(lst.calls) = MaxCalls
    /\ ~ChainEnds
    /\ PageAsked(lst.calls[2]) = 2
    /\ Answer(2).hasMore
    /\ Answer(2).cursor = ""
    /\ lst.calls[3] = << "files" >>
    /\ CountOf(lst.allFiles, File(101, "f", "file", RootID)) >= 2

====
